---- MODULE Spec2Model ----
(***************************************************************************)
(* Model of the npm-audit endpoint (src/pages/api/npm-audit.ts).           *)
(*                                                                         *)
(* The file holds three definitions of `handler`; a request is served by   *)
(* one of them (req[r].handler \in 1..3, in file order).  The handler is   *)
(* an async function run by a single-threaded event loop: `running` is the *)
(* request whose JavaScript is executing; it is released at every `await`  *)
(* and when the handler returns.  Child processes started with exec run    *)
(* outside the event loop (proc[r]).                                       *)
(*                                                                         *)
(* The dashboard (src/components/NpmAuditDashboard.tsx) is modelled beside *)
(* it: the component's state, the calls of onDrop/performAudit (`active`   *)
(* is the call whose JavaScript is executing), the table's filter and      *)
(* page, and the two exports.  The responses it receives are inputs.       *)
(***************************************************************************)
EXTENDS Integers, Sequences, FiniteSets, TLC

(***************************************************************************)
(* Bounds of the model.                                                    *)
(***************************************************************************)
MaxRequests == 2
\* the performAudit calls of the dashboard that can be in flight at once
MaxCalls == 2

Requests == 1 .. MaxRequests
\* the names mkdtempSync can draw: a request holds at most one directory, so
\* a request that has none always finds a free name
DirNames == 1 .. MaxRequests

Calls == 1 .. MaxCalls

None == "none"

(***************************************************************************)
(* JavaScript values, tagged by kind.  An object is a function from its    *)
(* keys to values; an absent key reads as undefined.                       *)
(***************************************************************************)
Undefined == [t |-> "undefined"]
Null == [t |-> "null"]
Str(s) == [t |-> "string", v |-> s]
Bool(b) == [t |-> "boolean", v |-> b]
Num(n) == [t |-> "number", v |-> n]
Arr(s) == [t |-> "array", v |-> s]
Obj(f) == [t |-> "object", v |-> f]
EmptyObj == Obj([k \in {} |-> Undefined])

\* the string JSON.stringify(v): a text that JSON.parse reads back as v
JSONText(v) == [t |-> "string", json |-> v]

\* typeof v
TypeOf(v) ==
  IF v.t \in {"null", "array", "object"} THEN "object" ELSE v.t

\* Array.isArray(v)
IsArray(v) == v.t = "array"

\* the truth value of v in a condition (`!v`, `v || d`, `v ? a : b`)
Truthy(v) ==
  CASE v.t \in {"undefined", "null"} -> FALSE
    [] v.t = "boolean" -> v.v
    [] v.t = "number" -> v.v # 0
    [] v.t = "string" -> IF "json" \in DOMAIN v THEN TRUE ELSE v.v # ""
    [] OTHER -> TRUE

\* v.k throws a TypeError when v is null or undefined
CanRead(v) == v.t \notin {"undefined", "null"}

\* v.k for a readable v
Get(v, k) ==
  IF v.t = "object" /\ k \in DOMAIN v.v THEN v.v[k] ELSE Undefined

\* v[0]
First(v) ==
  IF v.t = "array" /\ Len(v.v) > 0 THEN v.v[1] ELSE Undefined

\* a || d
OrElse(a, d) == IF Truthy(a) THEN a ELSE d

\* `${v}` in a template literal
ToStr(v) ==
  CASE v.t = "undefined" -> "undefined"
    [] v.t = "null" -> "null"
    [] v.t = "boolean" -> IF v.v THEN "true" ELSE "false"
    [] v.t = "number" -> ToString(v.v)
    [] v.t = "string" -> IF "json" \in DOMAIN v THEN "<json>" ELSE v.v
    [] v.t = "array" -> IF Len(v.v) = 0 THEN "" ELSE "<array>"
    [] OTHER -> "[object Object]"

\* an object with the keys of rec whose value is not undefined (JSON has no
\* undefined: a key without a value is an absent key)
MkObj(rec) ==
  Obj([k \in {x \in DOMAIN rec : rec[x] # Undefined} |-> rec[k]])

\* the keys of the model's objects, in the order objects list them
KeyOrder ==
  << "lodash", "minimist", "vulnerabilities", "metadata", "error" >>

\* Object.entries(v): the [key, value] pairs of an object, none for a
\* number or a boolean, index/element pairs for an array
Entries(v) ==
  CASE v.t = "object" ->
         LET keys == SelectSeq(KeyOrder, LAMBDA k : k \in DOMAIN v.v)
         IN  [i \in 1 .. Len(keys) |-> << keys[i], v.v[keys[i]] >>]
    [] v.t = "array" -> [i \in 1 .. Len(v.v) |-> << ToString(i - 1), v.v[i] >>]
    [] OTHER -> << >>

\* an Error object: message and stack
MkError(msg) ==
  Obj([message |-> Str(msg), stack |-> Str("Error: " \o msg \o " at handler")])

\* the error execPromise rejects with: promisify(exec) attaches the captured
\* stdout and stderr
ExecError(msg, out, err) ==
  MkObj([message |-> Str(msg), stack |-> Str("Error: " \o msg \o " at exec"),
         code |-> Num(1), stdout |-> out, stderr |-> err])

\* what res.json(v) puts on the wire: JSON.stringify drops the keys whose
\* value is undefined and writes an undefined array element as null
RECURSIVE Json(_)
Json(v) ==
  CASE v.t = "object" ->
         Obj([k \in {x \in DOMAIN v.v : v.v[x] # Undefined} |-> Json(v.v[k])])
    [] v.t = "array" ->
         Arr([i \in 1 .. Len(v.v) |->
                IF v.v[i] = Undefined THEN Null ELSE Json(v.v[i])])
    [] OTHER -> v

(***************************************************************************)
(* The mapping of one finding, npm-audit.ts lines 101-117 (the same text   *)
(* at 200-216 and 309-325).                                                *)
(***************************************************************************)
\* ViaInfo without the choice of the first element of a list
ViaInfoWholeList(info) == Get(info, "via")

\* const viaInfo = Array.isArray(info.via) ? info.via[0] : info.via
ViaInfo(info) ==
  IF IsArray(Get(info, "via")) THEN First(Get(info, "via")) ELSE Get(info, "via")

\* the callback throws a TypeError: info is null (info.via), or viaInfo is
\* null (typeof null is 'object', so viaInfo.title is read)
MapThrows(info) ==
  \/ ~CanRead(info)
  \/ (TypeOf(ViaInfo(info)) = "object" /\ ~CanRead(ViaInfo(info)))

\* viaInfo.cvss?.k
CvssField(viaInfo, k) ==
  IF CanRead(Get(viaInfo, "cvss")) THEN Get(Get(viaInfo, "cvss"), k) ELSE Undefined

\* info.fixAvailable ? `Upgrade ${...name} to version ${...version}` : '...'
Recommendation(info) ==
  IF Truthy(Get(info, "fixAvailable"))
  THEN Str("Upgrade " \o ToStr(Get(Get(info, "fixAvailable"), "name"))
           \o " to version " \o ToStr(Get(Get(info, "fixAvailable"), "version")))
  ELSE Str("No specific recommendation")

\* typeof viaInfo === 'object' ? viaInfo.k : undefined
ViaField(viaInfo, k) ==
  IF TypeOf(viaInfo) = "object" THEN Get(viaInfo, k) ELSE Undefined

\* the record built for one [name, info] entry
MapFinding(name, info) ==
  LET viaInfo == ViaInfo(info)
  IN  Obj([name |-> Str(name),
           version |-> OrElse(Get(info, "range"), Str("unknown")),
           vulnerability |->
             IF TypeOf(viaInfo) = "object" THEN Get(viaInfo, "title") ELSE viaInfo,
           severity |-> OrElse(Get(info, "severity"), Str("unknown")),
           recommendation |-> Recommendation(info),
           cvssScore |->
             IF TypeOf(viaInfo) = "object" THEN CvssField(viaInfo, "score")
             ELSE Undefined,
           cvssVector |->
             IF TypeOf(viaInfo) = "object" THEN CvssField(viaInfo, "vectorString")
             ELSE Undefined,
           source |-> ViaField(viaInfo, "source"),
           url |-> ViaField(viaInfo, "url"),
           cwe |-> ViaField(viaInfo, "cwe")])

\* VulnMap without the `|| {}` default
VulnMapNoDefault(auditOutput) == Get(auditOutput, "vulnerabilities")

\* auditOutput.vulnerabilities || {}
VulnMap(auditOutput) == OrElse(Get(auditOutput, "vulnerabilities"), EmptyObj)

\* the statement at line 101 throws: auditOutput is null, Object.entries is
\* given null or undefined, or the callback throws on some entry
MappingThrows(auditOutput) ==
  \/ ~CanRead(auditOutput)
  \/ ~CanRead(VulnMap(auditOutput))
  \/ \E i \in DOMAIN Entries(VulnMap(auditOutput)) :
        MapThrows(Entries(VulnMap(auditOutput))[i][2])

\* MapVulnerabilities that maps the first entry only
MapFirstVulnerability(auditOutput) ==
  LET es == Entries(VulnMap(auditOutput))
  IN  Arr([i \in DOMAIN es \cap {1} |-> MapFinding(es[i][1], es[i][2])])

\* Object.entries(auditOutput.vulnerabilities || {}).map(...)
MapVulnerabilities(auditOutput) ==
  LET es == Entries(VulnMap(auditOutput))
  IN  Arr([i \in DOMAIN es |-> MapFinding(es[i][1], es[i][2])])

(***************************************************************************)
(* Inputs: what a client can send and what the package manager can print.  *)
(***************************************************************************)
Methods == {"POST", "GET"}

DependencyMapping == Obj([lodash |-> Str("^4.17.0")])

\* req.body: null, {} (no dependencies field), and a dependencies field that
\* is null, a string, an array, a mapping
Bodies ==
  {Null, EmptyObj} \cup
  {Obj([dependencies |-> d]) :
     d \in {Null, Str("lodash"), Arr(<< Str("lodash") >>), DependencyMapping}}

\* an advisory object of a finding's `via`
Advisory ==
  Obj([source |-> Num(1094), name |-> Str("lodash"),
       title |-> Str("Prototype Pollution in lodash"),
       url |-> Str("https://github.com/advisories/GHSA-p6mc-m468-83gw"),
       severity |-> Str("high"), cwe |-> Arr(<< Str("CWE-1321") >>),
       cvss |-> Obj([score |-> Num(7), vectorString |-> Str("CVSS:3.1/AV:N/AC:H")]),
       range |-> Str("<4.17.19")])

\* `via`: absent, the name of another package, an advisory, lists of them
Vias ==
  {Undefined, Str("minimist"), Advisory, Null, Arr(<< >>),
   Arr(<< Advisory, Str("minimist") >>), Arr(<< Str("minimist"), Advisory >>)}

Severities == {Undefined, Str("high")}

Ranges == {Undefined, Str("<4.17.19")}

\* `fixAvailable`: absent, false, a bare true, the fix's package and version
Fixes ==
  {Undefined, Bool(FALSE), Bool(TRUE),
   Obj([name |-> Str("lodash"), version |-> Str("4.17.21"),
        isSemVerMajor |-> Bool(FALSE)])}

\* the value of one key of the report's vulnerabilities map
Infos ==
  {MkObj([via |-> v, range |-> g, severity |-> s, fixAvailable |-> f]) :
     v \in Vias, g \in Ranges, s \in Severities, f \in Fixes}

PlainInfo ==
  MkObj([via |-> Arr(<< Advisory >>), range |-> Str("<4.17.19"),
         severity |-> Str("high"), fixAvailable |-> Bool(FALSE)])

\* the vulnerabilities maps of the reports: none, empty, one key, two keys
VulnMaps ==
  {Undefined, EmptyObj, Obj([lodash |-> Null])} \cup
  {Obj([lodash |-> i]) : i \in Infos} \cup
  {Obj([lodash |-> PlainInfo, minimist |-> i]) :
     i \in {PlainInfo, MkObj([via |-> Arr(<< Str("lodash") >>),
                              fixAvailable |-> Bool(TRUE)])}}

\* metadata.vulnerabilities of a report that counts n findings
Counts(n) ==
  Obj([vulnerabilities |->
         Obj([info |-> Num(0), low |-> Num(0), moderate |-> Num(0),
              high |-> Num(n), critical |-> Num(0), total |-> Num(n)])])

\* the metadata the tool prints beside a vulnerabilities map: its counts, or
\* none (an error report has no metadata)
Metadatas(vm) ==
  {Undefined, Counts(Len(Entries(OrElse(vm, EmptyObj))))}

\* the JSON values `npm audit --json` can print
AuditReports ==
  {Null, Obj([error |-> Obj([code |-> Str("ENOLOCK")])])} \cup
  UNION {{MkObj([vulnerabilities |-> vm, metadata |-> md]) : md \in Metadatas(vm)} :
           vm \in VulnMaps}

\* texts that are not JSON
NonJson == {Str(""), Str("npm ERR! code EAUDITNOLOCK")}

Stderrs == {Str(""), Str("npm WARN audit")}

\* the handler definitions of npm-audit.ts, in file order
Handlers == 1 .. 3

(***************************************************************************)
(* State.                                                                  *)
(***************************************************************************)
VARIABLES
  running,       \* the request whose handler code is executing, 0 when none
  pc,            \* pc[r]: where request r's handler stands
  req,           \* req[r]: the request (the handler serving it, method, body)
  dependencies,  \* the handler's local `dependencies`
  tempDir,       \* the handler's local `tempDir`
  fs,            \* the temp root: fs[d] is directory d
  proc,          \* proc[r]: the child process the handler awaits
  stdoutAudit,   \* the handler's local `stdoutAudit` (`stdout`)
  stderrAudit,   \* the handler's local `stderrAudit` (`stderr`)
  auditOutput,   \* the handler's local `auditOutput`
  res,           \* res[r]: the responses sent for r, in order
  log            \* log[r]: the file-system calls and exec calls of r, in order

\* the dashboard (NpmAuditDashboard.tsx): the component's state, the table's
\* state, the performAudit calls and what the exports produced
VARIABLES
  auditResults,        \* useState: null or the normalized list
  auditSummary,        \* useState: null or the severity counts
  isLoading,           \* useState: the loading flag
  error,               \* useState: null or the banner's message
  globalFilter,        \* useState: the table's search text
  pageIndex,           \* the table's pagination state
  active,              \* the call whose code is executing, 0 when none
  at,                  \* at[c]: where call c of onDrop/performAudit stands
  packageJsonContent,  \* performAudit's parameter
  promise,             \* promise[c]: the fetch or response.json() c awaits
  response,            \* performAudit's local `response`
  pdf,                 \* the document doc.save() wrote last
  clipboard            \* the text written to the clipboard last

endpointVars ==
  << running, pc, req, dependencies, tempDir, fs, proc, stdoutAudit,
     stderrAudit, auditOutput, res, log >>

dashboardVars ==
  << auditResults, auditSummary, isLoading, error, globalFilter, pageIndex,
     active, at, packageJsonContent, promise, response, pdf, clipboard >>

vars == << endpointVars, dashboardVars >>

\* a promise nobody awaits
NoPromise == [state |-> "none", value |-> Undefined]

\* the component is mounted: lines 47-52
DashboardInit ==
  /\ auditResults = Null
  /\ auditSummary = Null
  /\ isLoading = FALSE
  /\ error = Null
  /\ globalFilter = Str("")
  /\ pageIndex = 0
  /\ active = 0
  /\ at = [c \in Calls |-> "idle"]
  /\ packageJsonContent = [c \in Calls |-> Undefined]
  /\ promise = [c \in Calls |-> NoPromise]
  /\ response = [c \in Calls |-> Undefined]
  /\ pdf = Undefined
  /\ clipboard = Undefined

NoFiles == [f \in {} |-> Undefined]
NoDir == [exists |-> FALSE, files |-> NoFiles]
NoProc ==
  [cmd |-> None, cwd |-> 0, state |-> "none", ok |-> FALSE, value |-> Undefined,
   writes |-> {}]
NoReq == [handler |-> 0, method |-> None, body |-> Undefined]

Init ==
  /\ running = 0
  /\ pc = [r \in Requests |-> "idle"]
  /\ req = [r \in Requests |-> NoReq]
  /\ dependencies = [r \in Requests |-> Undefined]
  /\ tempDir = [r \in Requests |-> 0]
  /\ fs = [d \in DirNames |-> NoDir]
  /\ proc = [r \in Requests |-> NoProc]
  /\ stdoutAudit = [r \in Requests |-> Undefined]
  /\ stderrAudit = [r \in Requests |-> Undefined]
  /\ auditOutput = [r \in Requests |-> Undefined]
  /\ res = [r \in Requests |-> << >>]
  /\ log = [r \in Requests |-> << >>]
  /\ DashboardInit

\* f with file name mapped to content
WithFile(files, name, content) ==
  [f \in DOMAIN files \cup {name} |-> IF f = name THEN content ELSE files[f]]

Logged(r, event) == log' = [log EXCEPT ![r] = Append(@, event)]

\* res.status(status).json(body), after which the handler returns
Respond(r, status, body) ==
  /\ res' = [res EXCEPT ![r] = Append(@, [status |-> status, body |-> Json(body)])]
  /\ pc' = [pc EXCEPT ![r] = "done"]
  /\ running' = 0

\* CatchBody without the stack trace
CatchBodyNoStack(e) ==
  Obj([error |-> Str("Failed to perform npm audit"),
       details |-> Get(e, "message")])

\* the outer catch block, lines 123-130
CatchBody(e) ==
  Obj([error |-> Str("Failed to perform npm audit"),
       details |-> Get(e, "message"), stack |-> Get(e, "stack")])

Catch(r, e) == Respond(r, 500, CatchBody(e))

\* the next statement of r's handler runs: r holds the event loop
At(r, label) == running = r /\ pc[r] = label

Goto(r, label) == pc' = [pc EXCEPT ![r] = label]

(***************************************************************************)
(* The handler, statement by statement.                                    *)
(***************************************************************************)
\* a request arrives and the event loop calls the handler serving it
Receive(r, I) ==
  /\ running = 0 /\ pc[r] = "idle"
  /\ \E h \in I.handlers, m \in I.methods, b \in I.bodies :
       req' = [req EXCEPT ![r] = [handler |-> h, method |-> m, body |-> b]]
  /\ running' = r
  /\ Goto(r, "method")
  /\ UNCHANGED << dependencies, tempDir, fs, proc, stdoutAudit, stderrAudit,
                  auditOutput, res, log >>
  /\ UNCHANGED dashboardVars

\* CheckMethod without its guard: every method is served
CheckMethodAnyMethod(r) ==
  /\ At(r, "method")
  /\ Goto(r, "body")
  /\ UNCHANGED << res, running, req, dependencies, tempDir, fs, proc, stdoutAudit,
                  stderrAudit, auditOutput, log >>
  /\ UNCHANGED dashboardVars

\* if (req.method !== 'POST') return res.status(405)...
CheckMethod(r) ==
  /\ At(r, "method")
  /\ IF req[r].method # "POST"
     THEN Respond(r, 405, Obj([message |-> Str("Method Not Allowed")]))
     ELSE Goto(r, "body") /\ UNCHANGED << res, running >>
  /\ UNCHANGED << req, dependencies, tempDir, fs, proc, stdoutAudit, stderrAudit,
                  auditOutput, log >>
  /\ UNCHANGED dashboardVars

\* const { dependencies } = req.body
ReadBody(r) ==
  /\ At(r, "body")
  /\ IF ~CanRead(req[r].body)
     THEN /\ Catch(r, MkError("Cannot destructure property 'dependencies' of 'req.body'"))
          /\ UNCHANGED dependencies
     ELSE /\ dependencies' = [dependencies EXCEPT ![r] = Get(req[r].body, "dependencies")]
          /\ Goto(r, IF req[r].handler = 1 THEN "validate" ELSE "mkdtemp")
          /\ UNCHANGED << res, running >>
  /\ UNCHANGED << req, tempDir, fs, proc, stdoutAudit, stderrAudit, auditOutput, log >>
  /\ UNCHANGED dashboardVars

\* !dependencies || typeof dependencies !== 'object'
InvalidDependencies(d) == ~Truthy(d) \/ TypeOf(d) # "object"

\* if (!dependencies || typeof dependencies !== 'object') return res.status(400)...
\* (the first handler only)
Validate(r) ==
  /\ At(r, "validate")
  /\ IF InvalidDependencies(dependencies[r])
     THEN Respond(r, 400, Obj([error |-> Str("Invalid dependencies format")]))
     ELSE Goto(r, "mkdtemp") /\ UNCHANGED << res, running >>
  /\ UNCHANGED << req, dependencies, tempDir, fs, proc, stdoutAudit, stderrAudit,
                  auditOutput, log >>
  /\ UNCHANGED dashboardVars

\* FreshDirs, had the directory been made under a name that is not checked
\* against the existing ones
AnyDirName(f) == DirNames

\* the names fs.mkdtempSync can create: those of no existing directory
FreshDirs(f) == {d \in DirNames : ~f[d].exists}

\* const tempDir = fs.mkdtempSync(path.join(os.tmpdir(), 'npm-audit-'))
Mkdtemp(r, I) ==
  /\ At(r, "mkdtemp")
  /\ Logged(r, "mkdtemp")
  /\ \/ \E d \in FreshDirs(fs) :
          /\ fs' = [fs EXCEPT ![d] = [exists |-> TRUE, files |-> NoFiles]]
          /\ tempDir' = [tempDir EXCEPT ![r] = d]
          /\ Goto(r, "write")
          /\ UNCHANGED << res, running >>
     \/ /\ TRUE \in I.faults
        /\ Catch(r, MkError("ENOSPC: no space left on device, mkdtemp"))
        /\ UNCHANGED << fs, tempDir >>
  /\ UNCHANGED << req, dependencies, proc, stdoutAudit, stderrAudit, auditOutput >>
  /\ UNCHANGED dashboardVars

\* the manifest object that is written
PackageJsonContent(h, deps) ==
  IF h = 1
  THEN Obj([name |-> Str("temp-package"), version |-> Str("1.0.0"),
            dependencies |-> deps])
  ELSE Obj([dependencies |-> deps])

\* fs.writeFileSync(tempFile, JSON.stringify(..., null, 2))
WriteManifest(r, I) ==
  /\ At(r, "write")
  /\ Logged(r, "writeFile")
  /\ \/ /\ fs[tempDir[r]].exists
        /\ fs' = [fs EXCEPT ![tempDir[r]].files =
                    WithFile(@, "package.json",
                             JSONText(Json(PackageJsonContent(req[r].handler,
                                                              dependencies[r]))))]
        /\ Goto(r, "exec_lock")
        /\ UNCHANGED << res, running >>
     \/ /\ TRUE \in I.faults \/ ~fs[tempDir[r]].exists
        /\ Catch(r, MkError(IF fs[tempDir[r]].exists
                            THEN "ENOSPC: no space left on device, write"
                            ELSE "ENOENT: no such file or directory, open"))
        /\ UNCHANGED fs
  /\ UNCHANGED << req, dependencies, tempDir, proc, stdoutAudit, stderrAudit,
                  auditOutput >>
  /\ UNCHANGED dashboardVars

\* execPromise(cmd, { cwd: tempDir }) followed by await: the child process
\* starts and the handler leaves the event loop
Exec(r, cmd, label) ==
  /\ proc' = [proc EXCEPT ![r] = [cmd |-> cmd, cwd |-> tempDir[r], state |-> "running",
                                  ok |-> FALSE, value |-> Undefined, writes |-> {}]]
  /\ Logged(r, cmd)
  /\ Goto(r, label)
  /\ running' = 0
  /\ UNCHANGED << req, dependencies, tempDir, fs, stdoutAudit, stderrAudit,
                  auditOutput, res >>
  /\ UNCHANGED dashboardVars

\* await execPromise('npm install --package-lock-only ...', { cwd: tempDir })
ExecLock(r) == At(r, "exec_lock") /\ Exec(r, "lock", "await_lock")

\* await execPromise('npm install --ignore-scripts', ...) (the first handler)
ExecInstall(r) == At(r, "exec_install") /\ Exec(r, "install", "await_install")

\* await execPromise('npm audit --json --omit=dev', { cwd: tempDir })
ExecAudit(r) == At(r, "exec_audit") /\ Exec(r, "audit", "await_audit")

(***************************************************************************)
(* The child processes.  What the package manager does is an input: every  *)
(* exit is possible.  exec fails to spawn in a directory that is gone.     *)
(***************************************************************************)
ExecResult(out, err) == Obj([stdout |-> out, stderr |-> err])

Exit(ok, value, writes) == [ok |-> ok, value |-> value, writes |-> writes]

\* `npm install --package-lock-only`: the lockfile is written, or the tool
\* exits 0 without writing one, or it fails
LockOutcomes ==
  {Exit(TRUE, ExecResult(Str("up to date"), Str("")), {"package-lock.json"}),
   Exit(TRUE, ExecResult(Str("up to date"), Str("")), {}),
   Exit(FALSE, ExecError("Command failed: npm install --package-lock-only",
                         Str(""), Str("npm ERR! code ETARGET")), {})}

InstallOutcomes ==
  {Exit(TRUE, ExecResult(Str("added 1 package"), Str("")), {"node_modules"}),
   Exit(FALSE, ExecError("Command failed: npm install", Str(""),
                         Str("npm ERR! code ENOTFOUND")), {})}

\* `npm audit --json`: exit 0, a non-zero exit with the captured output, a
\* rejection that carries no output
AuditOutcomes(stdouts, stderrs) ==
  {Exit(TRUE, ExecResult(out, err), {}) : out \in stdouts, err \in stderrs}
  \cup {Exit(FALSE, ExecError("Command failed: npm audit --json --omit=dev",
                              out, err), {}) : out \in stdouts, err \in stderrs}
  \cup {Exit(FALSE, MkError("Command failed: npm audit --json --omit=dev"), {})}

Outcomes(cmd, I) ==
  CASE cmd = "lock" -> I.lock
    [] cmd = "install" -> I.install
    [] OTHER -> I.audit

\* the inputs of a run of the model; faults: the file-system calls can fail
FullInputs ==
  [handlers |-> Handlers, methods |-> Methods, bodies |-> Bodies,
   lock |-> LockOutcomes, install |-> InstallOutcomes,
   audit |-> AuditOutcomes(NonJson \cup {JSONText(v) : v \in AuditReports}, Stderrs),
   faults |-> {TRUE, FALSE}]

SmallReport ==
  Obj([vulnerabilities |-> Obj([lodash |-> PlainInfo]), metadata |-> Counts(1)])

\* two or more requests at once: the first two handlers (the third differs
\* from them in no step that touches the directory), one body, two reports,
\* no file-system fault
SmallInputs ==
  [handlers |-> {1, 2}, methods |-> {"POST"},
   bodies |-> {Obj([dependencies |-> DependencyMapping])},
   lock |-> {o \in LockOutcomes : o.ok => o.writes # {}},
   install |-> {o \in InstallOutcomes : o.ok},
   audit |-> {Exit(TRUE, ExecResult(Str(""), Str("")), {}),
              Exit(FALSE, ExecError("Command failed: npm audit --json --omit=dev",
                                    JSONText(SmallReport), Str("")), {})},
   faults |-> {FALSE}]

SpawnFailure ==
  Exit(FALSE, ExecError("spawn /bin/sh ENOENT", Str(""), Str("")), {})

\* r's child process exits and execPromise settles
ProcExit(r, I) ==
  /\ proc[r].state = "running"
  /\ \E o \in IF fs[proc[r].cwd].exists THEN Outcomes(proc[r].cmd, I)
              ELSE {SpawnFailure} :
       /\ proc' = [proc EXCEPT ![r].state = "settled", ![r].ok = o.ok,
                               ![r].value = o.value, ![r].writes = o.writes]
       /\ fs' = [fs EXCEPT ![proc[r].cwd].files =
                   [f \in DOMAIN @ \cup o.writes |->
                      IF f \in o.writes THEN Str(f) ELSE @[f]]]
  /\ UNCHANGED << running, pc, req, dependencies, tempDir, stdoutAudit, stderrAudit,
                  auditOutput, res, log >>
  /\ UNCHANGED dashboardVars

\* Resumes, had the await been given up while the child process still runs
ResumesOnTimeout(r, label) == running = 0 /\ pc[r] = label

\* the awaited promise has settled and the event loop is free: the handler
\* continues after its await
Resumes(r, label) ==
  running = 0 /\ pc[r] = label /\ proc[r].state = "settled"

\* fs.readFileSync(path.join(tempDir, name), 'utf8') succeeds
CanReadFile(r, name) ==
  fs[tempDir[r]].exists /\ name \in DOMAIN fs[tempDir[r]].files

\* the error caught by the try around the lockfile step (handlers 1 and 3):
\* the rejection of execPromise, or the failure to read package-lock.json
LockfileError(r) ==
  IF proc[r].ok
  THEN MkError("ENOENT: no such file or directory, open 'package-lock.json'")
  ELSE proc[r].value

\* LockfileFails, had the handler ignored the failure as it does for install
LockfileFailureIgnored(r) == FALSE

LockfileFails(r) ==
  IF req[r].handler = 2 THEN ~proc[r].ok
  ELSE ~proc[r].ok \/ ~CanReadFile(r, "package-lock.json")

\* AfterLock without the install step of the first handler
AfterLockNoInstall(h) == "exec_audit"

\* the statement after the lockfile step
AfterLock(h) == IF h = 1 THEN "exec_install" ELSE "exec_audit"

\* lines 48-54 and 263-270: try { await ...; readFileSync(lockfile) } catch
\* (error) { return res.status(500)... }; line 164: a bare await, whose
\* rejection reaches the outer catch
ResumeLock(r) ==
  /\ Resumes(r, "await_lock")
  /\ IF LockfileFails(r)
     THEN IF req[r].handler = 2
          THEN Catch(r, proc[r].value)
          ELSE Respond(r, 500,
                       Obj([error |-> Str("Failed to create package-lock.json"),
                            details |-> Get(LockfileError(r), "message")]))
     ELSE /\ Goto(r, AfterLock(req[r].handler))
          /\ running' = r
          /\ UNCHANGED res
  /\ UNCHANGED << req, dependencies, tempDir, fs, proc, stdoutAudit, stderrAudit,
                  auditOutput, log >>
  /\ UNCHANGED dashboardVars

\* lines 58-63: a failed install is logged and ignored
ResumeInstall(r) ==
  /\ Resumes(r, "await_install")
  /\ Goto(r, "exec_audit")
  /\ running' = r
  /\ UNCHANGED << req, dependencies, tempDir, fs, proc, stdoutAudit, stderrAudit,
                  auditOutput, res, log >>
  /\ UNCHANGED dashboardVars

\* ResumeAudit, had a rejection of the audit been thrown on like the bare
\* await of the lockfile step in the second handler
ResumeAuditRethrows(r) ==
  /\ Resumes(r, "await_audit")
  /\ IF proc[r].ok
     THEN /\ stdoutAudit' = [stdoutAudit EXCEPT ![r] = Get(proc[r].value, "stdout")]
          /\ stderrAudit' = [stderrAudit EXCEPT ![r] = Get(proc[r].value, "stderr")]
          /\ Goto(r, "rm")
          /\ running' = r
          /\ UNCHANGED res
     ELSE /\ Catch(r, proc[r].value)
          /\ UNCHANGED << stdoutAudit, stderrAudit >>
  /\ UNCHANGED << req, dependencies, tempDir, fs, proc, auditOutput, log >>
  /\ UNCHANGED dashboardVars

\* lines 68-75: stdout and stderr of the result, or of the error
ResumeAudit(r) ==
  /\ Resumes(r, "await_audit")
  /\ stdoutAudit' = [stdoutAudit EXCEPT ![r] = Get(proc[r].value, "stdout")]
  /\ stderrAudit' = [stderrAudit EXCEPT ![r] = Get(proc[r].value, "stderr")]
  /\ Goto(r, "rm")
  /\ running' = r
  /\ UNCHANGED << req, dependencies, tempDir, fs, proc, auditOutput, res, log >>
  /\ UNCHANGED dashboardVars

\* Cleanup that removes nothing: the handler goes on to parse
CleanupSkipped(r, I) ==
  /\ At(r, "rm")
  /\ Goto(r, "parse")
  /\ UNCHANGED << running, req, dependencies, tempDir, fs, proc, stdoutAudit,
                  stderrAudit, auditOutput, res, log >>
  /\ UNCHANGED dashboardVars

\* fs.rmSync(tempDir, { recursive: true, force: true })
Cleanup(r, I) ==
  /\ At(r, "rm")
  /\ Logged(r, "rmSync")
  /\ \/ /\ fs' = [fs EXCEPT ![tempDir[r]] = NoDir]
        /\ Goto(r, "parse")
        /\ UNCHANGED << res, running >>
     \/ /\ TRUE \in I.faults
        /\ fs[tempDir[r]].exists
        /\ Catch(r, MkError("EACCES: permission denied, rmdir"))
        /\ UNCHANGED fs
  /\ UNCHANGED << req, dependencies, tempDir, proc, stdoutAudit, stderrAudit,
                  auditOutput >>
  /\ UNCHANGED dashboardVars

\* JSON.parse(text) returns: text is a string holding a JSON document
\* (undefined is read as the text "undefined", which is none)
JsonParses(text) == text.t = "string" /\ "json" \in DOMAIN text

JsonParse(text) == text.json

ParseErrorMessage(text) ==
  CASE text.t = "undefined" -> "\"undefined\" is not valid JSON"
    [] text = Str("") -> "Unexpected end of JSON input"
    [] OTHER -> "Unexpected token in JSON at position 0"

\* ParseFailureBody without the raw output
ParseFailureBodyNoOutput(h, out, err) ==
  Obj([error |-> Str("Failed to parse npm audit output"),
       details |-> Str(ParseErrorMessage(out))])

\* the body of the parse-failure response: lines 93-98 (keys stdoutAudit,
\* stderrAudit), lines 192-197 and 301-306 (keys stdout, stderr)
ParseFailureBody(h, out, err) ==
  IF h = 1
  THEN Obj([error |-> Str("Failed to parse npm audit output"),
            details |-> Str(ParseErrorMessage(out)),
            stdoutAudit |-> out, stderrAudit |-> err])
  ELSE Obj([error |-> Str("Failed to parse npm audit output"),
            details |-> Str(ParseErrorMessage(out)),
            stdout |-> out, stderr |-> err])

\* lines 88-99
Parse(r) ==
  /\ At(r, "parse")
  /\ Logged(r, "JSON.parse")
  /\ IF JsonParses(stdoutAudit[r])
     THEN /\ auditOutput' = [auditOutput EXCEPT ![r] = JsonParse(stdoutAudit[r])]
          /\ Goto(r, "map")
          /\ UNCHANGED << res, running >>
     ELSE /\ Respond(r, 500, ParseFailureBody(req[r].handler, stdoutAudit[r],
                                              stderrAudit[r]))
          /\ UNCHANGED auditOutput
  /\ UNCHANGED << req, dependencies, tempDir, fs, proc, stdoutAudit, stderrAudit >>
  /\ UNCHANGED dashboardVars

\* SuccessBody with a summary recomputed from the mapped findings
SuccessBodyRecomputed(ao) ==
  Obj([vulnerabilities |-> MapVulnerabilities(ao),
       metadata |-> Counts(Len(MapVulnerabilities(ao).v))])

\* the body of the 200 response, lines 119-122
SuccessBody(ao) ==
  Obj([vulnerabilities |-> MapVulnerabilities(ao), metadata |-> Get(ao, "metadata")])

\* lines 101-122
MapRespond(r) ==
  /\ At(r, "map")
  /\ IF MappingThrows(auditOutput[r])
     THEN Catch(r, MkError("Cannot read properties of null"))
     ELSE Respond(r, 200, SuccessBody(auditOutput[r]))
  /\ UNCHANGED << req, dependencies, tempDir, fs, proc, stdoutAudit, stderrAudit,
                  auditOutput, log >>
  /\ UNCHANGED dashboardVars

(***************************************************************************)
(* Specifications.                                                         *)
(***************************************************************************)
Step(r, I) ==
  \/ Receive(r, I)
  \/ CheckMethod(r)
  \/ ReadBody(r)
  \/ Validate(r)
  \/ Mkdtemp(r, I)
  \/ WriteManifest(r, I)
  \/ ExecLock(r)
  \/ ExecInstall(r)
  \/ ExecAudit(r)
  \/ ProcExit(r, I)
  \/ ResumeLock(r)
  \/ ResumeInstall(r)
  \/ ResumeAudit(r)
  \/ Cleanup(r, I)
  \/ Parse(r)
  \/ MapRespond(r)

\* one request, every input
Next == Step(1, FullInputs)

Spec == Init /\ [][Next]_vars

\* every request of Requests, in any interleaving the event loop allows
NextConc == \E r \in Requests : Step(r, SmallInputs)

SpecConc == Init /\ [][NextConc]_vars

\* the steps of r's handler: the statements the event loop runs
HandlerStep(r, I) ==
  \/ CheckMethod(r)
  \/ ReadBody(r)
  \/ Validate(r)
  \/ Mkdtemp(r, I)
  \/ WriteManifest(r, I)
  \/ ExecLock(r)
  \/ ExecInstall(r)
  \/ ExecAudit(r)
  \/ ResumeLock(r)
  \/ ResumeInstall(r)
  \/ ResumeAudit(r)
  \/ Cleanup(r, I)
  \/ Parse(r)
  \/ MapRespond(r)

\* termination: the three handlers, both methods, a body with and without
\* dependencies, every exit of the lockfile and install steps, an audit
\* that exits 0, one that fails with output and one that fails without,
\* file-system faults
LiveInputs ==
  [handlers |-> Handlers, methods |-> Methods,
   bodies |-> {Obj([dependencies |-> DependencyMapping]), EmptyObj},
   lock |-> LockOutcomes, install |-> InstallOutcomes,
   audit |-> {Exit(TRUE, ExecResult(JSONText(SmallReport), Str("")), {}),
              Exit(FALSE, ExecError("Command failed: npm audit --json --omit=dev",
                                    JSONText(Null), Str("")), {}),
              Exit(FALSE, MkError("Command failed: npm audit --json --omit=dev"), {})},
   faults |-> {TRUE, FALSE}]

NextLive == Step(1, LiveInputs)

\* the event loop runs every continuation that is ready, and every child
\* process exits; nothing makes a request arrive
SpecLive ==
  /\ Init /\ [][NextLive]_vars
  /\ WF_vars(HandlerStep(1, LiveInputs))
  /\ WF_vars(ProcExit(1, LiveInputs))

(***************************************************************************)
(* The dashboard, NpmAuditDashboard.tsx: onDrop and performAudit.          *)
(***************************************************************************)
\* v?.k
OptGet(v, k) == IF CanRead(v) THEN Get(v, k) ELSE Undefined

\* the texts of the files a user can drop: a manifest, the JSON text null,
\* a text that is not JSON
Contents ==
  {JSONText(Obj([name |-> Str("app"), dependencies |-> DependencyMapping])),
   JSONText(Null), Str("{ name: ")}

\* a Response of fetch: response.ok is true for the statuses 200-299
HttpResponse(status, text) ==
  [ok |-> status \in 200 .. 299, status |-> status, text |-> text]

Fulfilled(v) == [state |-> "fulfilled", value |-> v]

Rejected(e) == [state |-> "rejected", value |-> e]

\* a report with two findings, and what the tool prints when it cannot audit
TwoFindings ==
  Obj([vulnerabilities |->
         Obj([lodash |-> PlainInfo,
              minimist |-> MkObj([via |-> Arr(<< Str("lodash") >>),
                                  severity |-> Str("high"),
                                  fixAvailable |-> Bool(FALSE)])]),
       metadata |-> Counts(2)])

ErrorReport == Obj([error |-> Obj([code |-> Str("ENOLOCK")])])

\* the table shows ten rows a page (the default of getPaginationRowModel)
PageSize == 10

PackageName(i) == "pkg" \o ToString(i)

\* the 200 body for a report with one finding more than a page holds
ManyFindings ==
  Obj([vulnerabilities |->
         Arr([i \in 1 .. PageSize + 1 |-> Json(MapFinding(PackageName(i), PlainInfo))]),
       metadata |-> Counts(PageSize + 1)])

\* the responses of the endpoint, and of a proxy in front of it
OkResponses ==
  {HttpResponse(200, JSONText(Json(SuccessBody(rep)))) : rep \in {TwoFindings, ErrorReport}}
  \cup {HttpResponse(200, JSONText(ManyFindings))}

ErrorResponses ==
  {HttpResponse(400, JSONText(Obj([error |-> Str("Invalid dependencies format")]))),
   HttpResponse(500, JSONText(Json(CatchBody(MkError("Cannot read properties of null"))))),
   HttpResponse(500, JSONText(Obj([details |-> Str("no error field")]))),
   HttpResponse(500, JSONText(Null)),
   HttpResponse(502, Str("<html>Bad Gateway</html>"))}

NetworkFailure == Rejected(MkError("Failed to fetch"))

\* the inputs of a run of the dashboard
FullDashboard ==
  [contents |-> Contents,
   fetch |-> {NetworkFailure} \cup {Fulfilled(x) : x \in OkResponses \cup ErrorResponses}]

\* performAudit's locals go out of scope
Return(c) ==
  /\ at' = [at EXCEPT ![c] = "done"]
  /\ packageJsonContent' = [packageJsonContent EXCEPT ![c] = Undefined]
  /\ promise' = [promise EXCEPT ![c] = NoPromise]
  /\ response' = [response EXCEPT ![c] = Undefined]
  /\ active' = 0

\* the text of the banner, line 201
ErrorText(e) ==
  Str("An error occurred while performing the audit: " \o ToStr(Get(e, "message")))

\* Fail that also drops the results of the previous audit
FailClearsResults(c, e) ==
  /\ error' = ErrorText(e)
  /\ isLoading' = FALSE
  /\ auditResults' = Null
  /\ auditSummary' = Null
  /\ Return(c)
  /\ UNCHANGED << globalFilter, pageIndex >>

\* Fail without setError: the banner keeps what it showed
FailWithoutBanner(c, e) ==
  /\ isLoading' = FALSE
  /\ Return(c)
  /\ UNCHANGED << auditResults, auditSummary, error, globalFilter, pageIndex >>

\* lines 199-205: catch (error) { setError(...) } finally { setIsLoading(false) }
Fail(c, e) ==
  /\ error' = ErrorText(e)
  /\ isLoading' = FALSE
  /\ Return(c)
  /\ UNCHANGED << auditResults, auditSummary, globalFilter, pageIndex >>

\* lines 164-174: a file is dropped and reader.readAsText(file) starts
OnDrop(c) ==
  /\ active = 0 /\ at[c] \in {"idle", "done"}
  /\ at' = [at EXCEPT ![c] = "reading"]
  /\ UNCHANGED << auditResults, auditSummary, isLoading, error, globalFilter,
                  pageIndex, active, packageJsonContent, promise, response,
                  pdf, clipboard >>
  /\ UNCHANGED endpointVars

\* reader.onload calls performAudit(content): lines 179-180
PerformAudit(c, I) ==
  /\ active = 0 /\ at[c] = "reading"
  /\ \E content \in I.contents :
       packageJsonContent' = [packageJsonContent EXCEPT ![c] = content]
  /\ isLoading' = TRUE
  /\ error' = Null
  /\ at' = [at EXCEPT ![c] = "parse"]
  /\ active' = c
  /\ UNCHANGED << auditResults, auditSummary, globalFilter, pageIndex, promise,
                  response, pdf, clipboard >>
  /\ UNCHANGED endpointVars

\* JSON.stringify({ dependencies })
RequestBody(manifest) ==
  JSONText(Json(Obj([dependencies |-> Get(manifest, "dependencies")])))

\* lines 183-190: const { dependencies } = JSON.parse(...); await fetch(...)
ParseManifest(c) ==
  /\ active = c /\ at[c] = "parse"
  /\ IF ~JsonParses(packageJsonContent[c])
     THEN Fail(c, MkError(ParseErrorMessage(packageJsonContent[c])))
     ELSE IF ~CanRead(JsonParse(packageJsonContent[c]))
     THEN Fail(c, MkError("Cannot destructure property 'dependencies' of 'JSON.parse(...)'"))
     ELSE /\ promise' = [promise EXCEPT ![c] =
                           [state |-> "pending",
                            value |-> RequestBody(JsonParse(packageJsonContent[c]))]]
          /\ at' = [at EXCEPT ![c] = "await_fetch"]
          /\ active' = 0
          /\ UNCHANGED << auditResults, auditSummary, isLoading, error, globalFilter,
                          pageIndex, packageJsonContent, response >>
  /\ UNCHANGED << pdf, clipboard >>
  /\ UNCHANGED endpointVars

\* the network: the fetch of c is rejected, or a response arrives
FetchSettles(c, I) ==
  /\ at[c] = "await_fetch" /\ promise[c].state = "pending"
  /\ \E o \in I.fetch : promise' = [promise EXCEPT ![c] = o]
  /\ UNCHANGED << auditResults, auditSummary, isLoading, error, globalFilter,
                  pageIndex, active, at, packageJsonContent, response, pdf,
                  clipboard >>
  /\ UNCHANGED endpointVars

\* the promise response.json() returns
ResponseJson(resp) ==
  IF JsonParses(resp.text) THEN Fulfilled(JsonParse(resp.text))
  ELSE Rejected(MkError(ParseErrorMessage(resp.text)))

\* lines 184-192: the await of fetch ends; const data = await response.json()
ResumeFetch(c) ==
  /\ active = 0 /\ at[c] = "await_fetch"
  /\ promise[c].state \in {"fulfilled", "rejected"}
  /\ IF promise[c].state = "rejected"
     THEN Fail(c, promise[c].value)
     ELSE /\ response' = [response EXCEPT ![c] = promise[c].value]
          /\ promise' = [promise EXCEPT ![c] = ResponseJson(promise[c].value)]
          /\ at' = [at EXCEPT ![c] = "await_json"]
          /\ UNCHANGED << auditResults, auditSummary, isLoading, error, globalFilter,
                          pageIndex, active, packageJsonContent >>
  /\ UNCHANGED << pdf, clipboard >>
  /\ UNCHANGED endpointVars

\* new Error(data.error || `HTTP error! status: ${response.status}`)
HttpError(data, resp) ==
  MkError(ToStr(OrElse(Get(data, "error"),
                       Str("HTTP error! status: " \o ToString(resp.status)))))

\* lines 192-205: the await of response.json() ends
ResumeJson(c) ==
  /\ active = 0 /\ at[c] = "await_json"
  /\ LET data == promise[c].value
     IN  IF promise[c].state = "rejected" THEN Fail(c, data)
         ELSE IF ~CanRead(data)
         THEN Fail(c, MkError("Cannot read properties of null"))
         ELSE IF ~response[c].ok THEN Fail(c, HttpError(data, response[c]))
         ELSE /\ auditResults' = OrElse(Get(data, "vulnerabilities"), Arr(<< >>))
              /\ auditSummary' =
                   OrElse(OptGet(Get(data, "metadata"), "vulnerabilities"), Null)
              /\ isLoading' = FALSE
              /\ pageIndex' = 0
              /\ Return(c)
              /\ UNCHANGED << error, globalFilter >>
  /\ UNCHANGED << pdf, clipboard >>
  /\ UNCHANGED endpointVars

(***************************************************************************)
(* The dashboard: the table and the two exports.                           *)
(***************************************************************************)
\* the search texts a user types: none, the name of a package, a text no
\* cell holds.  A cell includes a text when the text is empty or is the
\* whole cell: no cell of the model's lists holds one of these texts as a
\* proper part.
FilterTexts == {Str(""), Str("minimist"), Str("zzz")}

\* the cells of a row the global filter searches: the string columns
Cells(result) ==
  {Get(result, k) : k \in {"name", "version", "vulnerability", "severity",
                           "recommendation"}}

\* getFilteredRowModel: the rows with a cell that includes the search text
Matches(result, text) == text = Str("") \/ text \in Cells(result)

\* auditResults || []
Records(results) == IF CanRead(results) THEN results.v ELSE << >>

Filtered(results, text) ==
  SelectSeq(Records(results), LAMBDA result : Matches(result, text))

\* table.getPageCount()
PageCount(results, text) ==
  (Len(Filtered(results, text)) + PageSize - 1) \div PageSize

\* table.getRowModel().rows: the filtered rows of the current page
VisibleRows(results, text, page) ==
  LET rows == Filtered(results, text)
      from == page * PageSize + 1
      to == IF (page + 1) * PageSize < Len(rows) THEN (page + 1) * PageSize
            ELSE Len(rows)
  IN  IF from > to THEN << >> ELSE SubSeq(rows, from, to)

\* the block that holds the table, the search box and the export buttons is
\* rendered: auditResults && auditResults.length > 0
TableShown == CanRead(auditResults) /\ Len(auditResults.v) > 0

\* onChange of the search box; the table goes back to its first page
SetGlobalFilter(text) ==
  /\ active = 0 /\ TableShown
  /\ globalFilter' = text
  /\ pageIndex' = 0
  /\ UNCHANGED << auditResults, auditSummary, isLoading, error, active, at,
                  packageJsonContent, promise, response, pdf, clipboard >>
  /\ UNCHANGED endpointVars

\* table.nextPage(), enabled by table.getCanNextPage()
NextPage ==
  /\ active = 0 /\ TableShown
  /\ pageIndex < PageCount(auditResults, globalFilter) - 1
  /\ pageIndex' = pageIndex + 1
  /\ UNCHANGED << auditResults, auditSummary, isLoading, error, globalFilter,
                  active, at, packageJsonContent, promise, response, pdf,
                  clipboard >>
  /\ UNCHANGED endpointVars

\* table.previousPage(), enabled by table.getCanPreviousPage()
PreviousPage ==
  /\ active = 0 /\ TableShown
  /\ pageIndex > 0
  /\ pageIndex' = pageIndex - 1
  /\ UNCHANGED << auditResults, auditSummary, isLoading, error, globalFilter,
                  active, at, packageJsonContent, promise, response, pdf,
                  clipboard >>
  /\ UNCHANGED endpointVars

SeverityKeys == << "total", "critical", "high", "moderate", "low", "info" >>

\* auditSummary?.k?.toString() || '0'
PdfCount(summary, k) ==
  IF CanRead(OptGet(summary, k)) /\ ToStr(OptGet(summary, k)) # ""
  THEN ToStr(OptGet(summary, k)) ELSE "0"

\* result => [result.name, ..., result.cvssScore?.toString() || 'N/A', ...]
PdfRow(result) ==
  << Get(result, "name"), Get(result, "version"), Get(result, "vulnerability"),
     Get(result, "severity"),
     IF CanRead(Get(result, "cvssScore")) /\ ToStr(Get(result, "cvssScore")) # ""
     THEN Str(ToStr(Get(result, "cvssScore"))) ELSE Str("N/A"),
     Get(result, "recommendation") >>

\* PdfRows that takes the rows the table shows
PdfRowsOfTable(results) ==
  LET rows == VisibleRows(results, globalFilter, pageIndex)
  IN  [i \in DOMAIN rows |-> PdfRow(rows[i])]

\* auditResults?.map(...) || []
PdfRows(results) == [i \in DOMAIN Records(results) |-> PdfRow(Records(results)[i])]

\* lines 230-280: the title, the summary table and the details table
PdfDocument(results, summary) ==
  [title |-> "NPM Audit Report",
   summary |-> [i \in DOMAIN SeverityKeys |->
                  << SeverityKeys[i], PdfCount(summary, SeverityKeys[i]) >>],
   details |-> PdfRows(results)]

\* `${auditSummary?.k || 0}`
MarkdownCount(summary, k) == ToStr(OrElse(OptGet(summary, k), Num(0)))

\* `| ${result.name} | ... | ${result.cvssScore || 'N/A'} | ... |`: the cells
\* of the line, as the template prints them
MarkdownRow(result) ==
  << ToStr(Get(result, "name")), ToStr(Get(result, "version")),
     ToStr(Get(result, "vulnerability")), ToStr(Get(result, "severity")),
     ToStr(OrElse(Get(result, "cvssScore"), Str("N/A"))),
     ToStr(Get(result, "recommendation")) >>

\* auditResults?.forEach(result => { markdown += ... })
MarkdownRows(results) ==
  [i \in DOMAIN Records(results) |-> MarkdownRow(Records(results)[i])]

\* lines 282-302: the summary bullets and the lines of the details table
GenerateMarkdownReport(results, summary) ==
  [title |-> "# NPM Audit Report",
   summary |-> [i \in DOMAIN SeverityKeys |->
                  << SeverityKeys[i], MarkdownCount(summary, SeverityKeys[i]) >>],
   details |-> MarkdownRows(results)]

\* onClick of Export PDF: doc.save('npm-audit-report.pdf')
GeneratePDFReport ==
  /\ active = 0 /\ TableShown
  /\ pdf' = PdfDocument(auditResults, auditSummary)
  /\ UNCHANGED << auditResults, auditSummary, isLoading, error, globalFilter,
                  pageIndex, active, at, packageJsonContent, promise, response,
                  clipboard >>
  /\ UNCHANGED endpointVars

\* onClick of Copy Markdown: navigator.clipboard.writeText(markdown)
CopyMarkdownReport ==
  /\ active = 0 /\ TableShown
  /\ clipboard' = GenerateMarkdownReport(auditResults, auditSummary)
  /\ UNCHANGED << auditResults, auditSummary, isLoading, error, globalFilter,
                  pageIndex, active, at, packageJsonContent, promise, response,
                  pdf >>
  /\ UNCHANGED endpointVars

\* a step of call c of onDrop and performAudit
CallStep(c, I) ==
  \/ OnDrop(c)
  \/ PerformAudit(c, I)
  \/ ParseManifest(c)
  \/ FetchSettles(c, I)
  \/ ResumeFetch(c)
  \/ ResumeJson(c)

\* overlapping uploads: every call of Calls, in any interleaving
NextDashboard == \E c \in Calls : CallStep(c, FullDashboard)

SpecDashboard == Init /\ [][NextDashboard]_vars

\* one upload at a time, every input, the table and the exports
NextExport ==
  \/ CallStep(1, FullDashboard)
  \/ \E text \in FilterTexts : SetGlobalFilter(text)
  \/ NextPage
  \/ PreviousPage
  \/ GeneratePDFReport
  \/ CopyMarkdownReport

SpecExport == Init /\ [][NextExport]_vars

(***************************************************************************)
(* Properties.                                                             *)
(***************************************************************************)
Done(r) == pc[r] = "done"

Has(r, event) == \E i \in DOMAIN log[r] : log[r][i] = event

Count(r, event) == Cardinality({i \in DOMAIN log[r] : log[r][i] = event})

\* the child processes r started, in order
Execs(r) == SelectSeq(log[r], LAMBDA e : e \in {"lock", "install", "audit"})

\* r got exactly one response, with this status
Answered(r, status) == Len(res[r]) = 1 /\ res[r][1].status = status

\* the JSON document of r's response
Body(r) == res[r][1].body.v

\* C1: at the moment a request's response is sent, the temporary directory
\* the request created no longer exists and rmSync has run exactly once for
\* it, whatever the outcome of the lockfile and audit invocations.
C1_TempDirRemovedAtResponse ==
  [][\A r \in Requests :
       (pc[r] # "done" /\ pc'[r] = "done" /\ tempDir[r] # 0)
         => (~fs'[tempDir[r]].exists /\ Count(r, "rmSync")' = 1)]_vars

\* C2: a request whose method is not POST gets 405 from each of the three
\* handlers, creates no temporary directory and starts no child process.
C2_NonPostGets405 ==
  \A r \in Requests :
    req[r].method \notin {None, "POST"} =>
      /\ log[r] = << >> /\ tempDir[r] = 0 /\ proc[r] = NoProc
      /\ \A d \in DirNames : ~fs[d].exists
      /\ Done(r) => Answered(r, 405)

C2_Witness ==
  \E r \in Requests :
    Done(r) /\ req[r].method = "GET" /\ req[r].handler = 3 /\ Answered(r, 405)
      /\ req[r].body = Obj([dependencies |-> DependencyMapping])

\* the dependencies field of a request body is missing, null or not a
\* key/value structure
NotAMapping(body) ==
  CanRead(body) /\ Get(body, "dependencies").t # "object"

\* C3: a POST request whose dependencies field is missing, null or not a
\* key/value structure gets 400, creates no temporary directory and starts
\* no child process.
C3_InvalidDependenciesGet400 ==
  \A r \in Requests :
    (req[r].method = "POST" /\ NotAMapping(req[r].body)) =>
      /\ log[r] = << >> /\ tempDir[r] = 0 /\ proc[r] = NoProc
      /\ Done(r) => Answered(r, 400)

\* the audit ran for r and its captured stdout is not JSON
AuditOutputUnparseable(r) ==
  Has(r, "audit") /\ pc[r] \in {"rm", "parse", "done"} /\ ~JsonParses(stdoutAudit[r])

\* r's response is a 500 whose body holds the raw stdout and stderr (a key
\* for each one that was captured)
CarriesRawOutput(r) ==
  LET out == IF req[r].handler = 1 THEN "stdoutAudit" ELSE "stdout"
      err == IF req[r].handler = 1 THEN "stderrAudit" ELSE "stderr"
  IN  /\ Answered(r, 500)
      /\ Body(r)["error"] = Str("Failed to parse npm audit output")
      /\ stdoutAudit[r] # Undefined =>
           (out \in DOMAIN Body(r) /\ Body(r)[out] = stdoutAudit[r])
      /\ stderrAudit[r] # Undefined =>
           (err \in DOMAIN Body(r) /\ Body(r)[err] = stderrAudit[r])

\* C4 as stated: whenever the audit's stdout is not parseable as JSON, the
\* response is a 500 that contains the raw stdout and stderr.
C4_UnparseableAlwaysRaw500 ==
  \A r \in Requests : (Done(r) /\ AuditOutputUnparseable(r)) => CarriesRawOutput(r)

\* C4 amended: whenever the handler reaches the parse step (removing the
\* directory did not throw) with a stdout that is not parseable as JSON,
\* undefined included, the response is a 500 that contains the raw stdout
\* and stderr; when removing the directory throws, the response is the 500
\* of the outer catch, with the message and stack of that error.
C4_UnparseableRaw500 ==
  \A r \in Requests :
    (Done(r) /\ AuditOutputUnparseable(r)) =>
      IF Has(r, "JSON.parse") THEN CarriesRawOutput(r)
      ELSE /\ Answered(r, 500)
           /\ res[r][1].body = Json(CatchBody(MkError("EACCES: permission denied, rmdir")))

C4_Witness ==
  \E r \in Requests :
    /\ Done(r) /\ Has(r, "JSON.parse") /\ ~proc[r].ok
    /\ stdoutAudit[r] = Undefined /\ CarriesRawOutput(r)

\* r's lockfile invocation has failed and the handler has seen it
LockfileInvocationFailed(r) ==
  /\ proc[r].cmd = "lock" /\ proc[r].state = "settled" /\ ~proc[r].ok
  /\ pc[r] # "await_lock"

\* C5: when the lockfile invocation fails, the request ends with a 500 that
\* carries the error's message, and neither the install nor the audit
\* invocation is started.
C5_LockfileFailureIsFatal ==
  \A r \in Requests :
    LockfileInvocationFailed(r) =>
      /\ Done(r) /\ Answered(r, 500)
      /\ Body(r)["details"] = Get(proc[r].value, "message")
      /\ Execs(r) = << "lock" >>

C5_Witness ==
  \E r \in Requests :
    /\ LockfileInvocationFailed(r) /\ req[r].handler = 2 /\ Done(r)
    /\ Body(r)["details"] = Str("Command failed: npm install --package-lock-only")

\* r's audit invocation has settled and the handler has resumed after it
AuditSettled(r) ==
  proc[r].cmd = "audit" /\ proc[r].state = "settled" /\ pc[r] # "await_audit"

\* the response that follows from a captured stdout and stderr alone
ResponseToOutput(h, out, err) ==
  IF ~JsonParses(out)
  THEN [status |-> 500, body |-> Json(ParseFailureBody(h, out, err))]
  ELSE IF MappingThrows(JsonParse(out))
       THEN [status |-> 500,
             body |-> Json(CatchBody(MkError("Cannot read properties of null")))]
       ELSE [status |-> 200,
             body |-> Json(Obj([vulnerabilities |-> MapVulnerabilities(JsonParse(out)),
                                metadata |-> Get(JsonParse(out), "metadata")]))]

\* C6 as stated: when the audit invocation rejects, the handler takes the
\* captured stdout and stderr, performs cleanup, and the response depends
\* only on whether that stdout parses: 200 with the mapped findings if it
\* does (the parse-failure 500 if it does not).  Stated here for the runs
\* in which the cleanup itself succeeds.
C6_RejectedAuditDecidedByParse ==
  \A r \in Requests :
    (Done(r) /\ AuditSettled(r) /\ ~proc[r].ok /\ ~fs[tempDir[r]].exists) =>
      /\ stdoutAudit[r] = Get(proc[r].value, "stdout")
      /\ stderrAudit[r] = Get(proc[r].value, "stderr")
      /\ Count(r, "rmSync") = 1
      /\ IF JsonParses(stdoutAudit[r])
         THEN /\ Answered(r, 200)
              /\ Body(r)["vulnerabilities"] =
                   Json(MapVulnerabilities(JsonParse(stdoutAudit[r])))
         ELSE CarriesRawOutput(r)

\* C6 amended: the exit status of the audit invocation never by itself
\* produces an error response.  When the invocation rejects, the handler
\* takes the stdout and stderr captured from the failure and calls rmSync
\* once; if rmSync succeeds the response is the one that output gets after
\* exit 0: the parse-failure 500 if stdout does not parse, 200 with the
\* mapped findings if it parses to a value the mapping accepts, the outer
\* catch's 500 if the mapping throws (JSON null, a null finding); if rmSync
\* throws the response is the outer catch's 500.
C6_ExitStatusNotAnError ==
  \A r \in Requests :
    (Done(r) /\ AuditSettled(r)) =>
      /\ stdoutAudit[r] = Get(proc[r].value, "stdout")
      /\ stderrAudit[r] = Get(proc[r].value, "stderr")
      /\ Count(r, "rmSync") = 1
      /\ res[r] =
           << IF Has(r, "JSON.parse")
              THEN ResponseToOutput(req[r].handler, stdoutAudit[r], stderrAudit[r])
              ELSE [status |-> 500,
                    body |-> Json(CatchBody(MkError("EACCES: permission denied, rmdir")))] >>

C6_Witness ==
  \E r \in Requests :
    /\ Done(r) /\ AuditSettled(r) /\ ~proc[r].ok /\ Answered(r, 200)
    /\ Len(Body(r)["vulnerabilities"].v) = 2
    /\ ~fs[tempDir[r]].exists

\* the calls of a run of handler h in which no step fails
Pipeline(h) ==
  IF h = 1
  THEN << "mkdtemp", "writeFile", "lock", "install", "audit", "rmSync", "JSON.parse" >>
  ELSE << "mkdtemp", "writeFile", "lock", "audit", "rmSync", "JSON.parse" >>

IsPrefix(s, t) == Len(s) <= Len(t) /\ \A i \in DOMAIN s : s[i] = t[i]

\* a child process of r runs only while the handler awaits it, and it is the
\* last call the handler made
OneStepAtATime(r) ==
  proc[r].state = "running" =>
    /\ pc[r] \in {"await_lock", "await_install", "await_audit"}
    /\ log[r][Len(log[r])] = proc[r].cmd

\* C7 as stated: a request that passes validation runs write manifest,
\* lockfile-only invocation, audit invocation, parse, respond, one after the
\* other, with exactly two external invocations and never a third.
C7_ExactlyTwoInvocations ==
  \A r \in Requests :
    /\ IsPrefix(log[r], Pipeline(2))
    /\ OneStepAtATime(r)
    /\ (Done(r) /\ Has(r, "JSON.parse")) => Execs(r) = << "lock", "audit" >>

\* C7 amended: a request that passes validation runs one sequential
\* pipeline: write manifest, lockfile-only invocation, audit invocation,
\* remove the directory, parse, respond in the second and third handler,
\* and the same with a full install invocation between the lockfile and the
\* audit invocation in the first handler (three external invocations); no
\* step starts before the previous one has finished, a failing step ends the
\* pipeline, and no other external invocation occurs.
C7_SequentialPipeline ==
  \A r \in Requests :
    /\ IsPrefix(log[r], Pipeline(req[r].handler))
    /\ OneStepAtATime(r)
    /\ (Done(r) /\ Has(r, "JSON.parse")) =>
         Execs(r) = IF req[r].handler = 1 THEN << "lock", "install", "audit" >>
                    ELSE << "lock", "audit" >>

C7_Witness ==
  \E r \in Requests :
    /\ Done(r) /\ Answered(r, 200) /\ req[r].handler = 1
    /\ log[r] = Pipeline(1)

\* r has created its temporary directory and has not yet removed it
UsesDir(r) ==
  pc[r] \in {"write", "exec_lock", "await_lock", "exec_install", "await_install",
             "exec_audit", "await_audit", "rm"}

\* the response r gets when it runs alone with the same request and the same
\* behaviour of the file system and of its own child processes
AnsweredAsAlone(r) ==
  LET h == req[r].handler
      last == log[r][Len(log[r])]
      caught(msg) == [status |-> 500, body |-> Json(CatchBody(MkError(msg)))]
  IN  IF log[r] = << >> THEN Answered(r, IF h = 1 THEN 400 ELSE 500)
      ELSE CASE last = "mkdtemp" ->
                  res[r] = << caught("ENOSPC: no space left on device, mkdtemp") >>
             [] last = "writeFile" ->
                  res[r] = << caught("ENOSPC: no space left on device, write") >>
             [] last = "lock" ->
                  /\ proc[r].cmd = "lock" /\ proc[r].value # SpawnFailure.value
                  /\ proc[r].ok => (h # 2 /\ proc[r].writes = {})
                  /\ res[r] =
                       << IF h = 2
                          THEN [status |-> 500, body |-> Json(CatchBody(proc[r].value))]
                          ELSE [status |-> 500,
                                body |-> Obj([error |->
                                                Str("Failed to create package-lock.json"),
                                              details |->
                                                Get(LockfileError(r), "message")])] >>
             [] last = "rmSync" ->
                  res[r] = << caught("EACCES: permission denied, rmdir") >>
             [] last = "JSON.parse" ->
                  /\ proc[r].cmd = "audit" /\ proc[r].value # SpawnFailure.value
                  /\ res[r] = << ResponseToOutput(h, Get(proc[r].value, "stdout"),
                                                  Get(proc[r].value, "stderr")) >>
             [] OTHER -> FALSE

\* no request interferes with another
Isolated ==
  /\ \A r, q \in Requests :
       (r # q /\ UsesDir(r) /\ UsesDir(q)) => tempDir[r] # tempDir[q]
  /\ \A r \in Requests :
       /\ UsesDir(r) => fs[tempDir[r]].exists
       /\ proc[r].state = "settled" => proc[r].value # SpawnFailure.value
       /\ (Done(r) /\ req[r].method = "POST") => AnsweredAsAlone(r)

\* the directory a request uses changes only by a step of that request or
\* of its child process
OwnDirectory ==
  \A r \in Requests :
    (UsesDir(r) /\ pc'[r] = pc[r] /\ proc'[r] = proc[r]) =>
      fs'[tempDir[r]] = fs[tempDir[r]]

\* C8: in every interleaving of concurrent requests each request works in
\* its own temporary directory, no request's cleanup removes a directory
\* another request still uses, and each request gets the response it gets
\* when it runs alone.
C8_RequestsIsolated == [] Isolated /\ [][OwnDirectory]_vars

C8_Witness ==
  \E r, q \in Requests :
    /\ r # q
    /\ Done(q) /\ Has(q, "rmSync") /\ Answered(q, 200)
    /\ Done(r) /\ Has(r, "rmSync") /\ Answered(r, 500)
    /\ tempDir[r] # tempDir[q]

\* r's handler has parsed the audit output (it is in auditOutput[r])
Parsed(r) == Has(r, "JSON.parse") /\ JsonParses(stdoutAudit[r])

\* the report lists no finding: its vulnerabilities map is absent or empty
ZeroVulnerabilities(report) ==
  \/ Get(report, "vulnerabilities") = Undefined
  \/ Get(report, "vulnerabilities") = EmptyObj

\* metadata.vulnerabilities.total of a response body or of a report
SummaryTotal(doc) == Get(Get(Get(doc, "metadata"), "vulnerabilities"), "total")

FixAvailable(info) ==
  Get(info, "fixAvailable") = Bool(TRUE) \/ Get(info, "fixAvailable").t = "object"

\* the recommendations that name a package and a version
NamedFixes ==
  {Str("Upgrade " \o p \o " to version " \o v) :
     p \in {"lodash", "minimist"}, v \in {"4.17.21", "1.2.8"}}

\* C10: for every finding, the mapped record's severity is the tool's
\* severity for that package ('unknown' when it gives none); its
\* recommendation names the fix's package and version whenever the tool
\* reports a fix as available, a bare true included, and is 'No specific
\* recommendation' exactly when no fix is available.
C10_SeverityAndRecommendationMatch ==
  \A r \in Requests :
    (Done(r) /\ Parsed(r) /\ Answered(r, 200)) =>
      LET es == Entries(VulnMap(auditOutput[r]))
      IN  \A i \in DOMAIN es :
            LET info == es[i][2]
                rec == Body(r)["vulnerabilities"].v[i]
                fix == Get(info, "fixAvailable")
            IN  /\ Get(rec, "name") = Str(es[i][1])
                /\ Get(rec, "severity") =
                     IF Get(info, "severity") = Undefined THEN Str("unknown")
                     ELSE Get(info, "severity")
                /\ FixAvailable(info) <=>
                     Get(rec, "recommendation") # Str("No specific recommendation")
                /\ FixAvailable(info) => Get(rec, "recommendation") \in NamedFixes
                /\ fix.t = "object" =>
                     Get(rec, "recommendation") =
                       Str("Upgrade " \o Get(fix, "name").v \o " to version "
                           \o Get(fix, "version").v)

\* C11: on every 200 response the metadata field is the metadata of the
\* parsed audit output, unmodified: equal to it when the output has one,
\* absent when it has none; nothing is recomputed from the mapped findings.
C11_MetadataPassedThrough ==
  \A r \in Requests :
    (Done(r) /\ Answered(r, 200)) =>
      /\ Parsed(r)
      /\ Get(res[r][1].body, "metadata") = Get(auditOutput[r], "metadata")
      /\ "metadata" \in DOMAIN Body(r) <=> Get(auditOutput[r], "metadata") # Undefined

C11_Witness ==
  \E r \in Requests :
    /\ Done(r) /\ Answered(r, 200) /\ Parsed(r)
    /\ Len(Body(r)["vulnerabilities"].v) = 2
    /\ Get(res[r][1].body, "metadata") = Counts(2)
    /\ Get(auditOutput[r], "metadata") = Counts(2)

\* the last call r's handler made
LastCall(r) == IF log[r] = << >> THEN None ELSE log[r][Len(log[r])]

\* r ended in a failure that is neither invalid input, nor the lockfile
\* step, nor the parse of the audit output: mkdtempSync, writeFileSync or
\* rmSync threw (the handler ended at that call), or the mapping threw
UnexpectedFailure(r) ==
  /\ Done(r)
  /\ \/ LastCall(r) \in {"mkdtemp", "writeFile", "rmSync"}
     \/ Parsed(r) /\ MappingThrows(auditOutput[r])

\* the message of the error that ended r
FailureMessage(r) ==
  CASE LastCall(r) = "mkdtemp" -> "ENOSPC: no space left on device, mkdtemp"
    [] LastCall(r) = "writeFile" -> "ENOSPC: no space left on device, write"
    [] LastCall(r) = "rmSync" -> "EACCES: permission denied, rmdir"
    [] OTHER -> "Cannot read properties of null"

\* one 500 response that carries the error's message and stack trace
MessageAndStack500(r) ==
  /\ Answered(r, 500)
  /\ DOMAIN Body(r) = {"error", "details", "stack"}
  /\ Body(r)["error"] = Str("Failed to perform npm audit")
  /\ Body(r)["details"] = Str(FailureMessage(r))
  /\ Body(r)["stack"].t = "string" /\ Body(r)["stack"] # Str("")

\* no call of the pipeline is made twice
NoRetry(r) ==
  \A e \in {"mkdtemp", "writeFile", "lock", "install", "audit", "rmSync", "JSON.parse"} :
    Count(r, e) <= 1

\* a request that has its response makes no further call and gets no
\* further response
Terminal ==
  \A r \in Requests :
    Done(r) => (log'[r] = log[r] /\ res'[r] = res[r] /\ proc'[r] = proc[r]
                /\ pc'[r] = pc[r])

\* C12: every failure other than invalid input, lockfile failure and JSON
\* parse failure (mkdtempSync, writeFileSync or rmSync throwing, an exception
\* while mapping the parsed output) yields exactly one 500 response with the
\* error's message and stack trace, and no step is retried after a failure.
C12_UnexpectedFailureIs500 ==
  /\ [](\A r \in Requests :
          /\ NoRetry(r)
          /\ UnexpectedFailure(r) => MessageAndStack500(r))
  /\ [][Terminal]_vars

C12_Witness ==
  \E r \in Requests :
    /\ UnexpectedFailure(r) /\ Parsed(r) /\ auditOutput[r] = Null
    /\ MessageAndStack500(r)

\* rows holds one row per record of the list, in list order: as many rows as
\* records, and the i-th row names the i-th record
OneRowPerRecord(rows, results, name(_)) ==
  /\ Len(rows) = Len(Records(results))
  /\ \A i \in DOMAIN rows : rows[i][1] = name(Get(Records(results)[i], "name"))
  /\ \A i, j \in DOMAIN rows : rows[i][1] = rows[j][1] => i = j

\* the table shows fewer rows than the list holds
TableHidesRows ==
  Len(VisibleRows(auditResults, globalFilter, pageIndex)) < Len(Records(auditResults))

\* C13: the Markdown export and the PDF export each hold exactly one details
\* row per record of the list the dashboard holds, in list order, whatever
\* the table's filter and page (the table has no control that sorts).
C13_ExportsHoldEveryRecord ==
  [][/\ pdf' # pdf =>
          OneRowPerRecord(pdf'.details, auditResults, LAMBDA n : n)
     /\ clipboard' # clipboard =>
          OneRowPerRecord(clipboard'.details, auditResults, LAMBDA n : ToStr(n))]_vars

C13_Witness ==
  /\ pdf # Undefined /\ clipboard # Undefined
  /\ pageIndex = 1 /\ TableHidesRows
  /\ Len(Records(auditResults)) = PageSize + 1
  /\ OneRowPerRecord(pdf.details, auditResults, LAMBDA n : n)
  /\ OneRowPerRecord(clipboard.details, auditResults, LAMBDA n : ToStr(n))

\* r's handler awaits a child process that has not exited
AwaitsProcess(r) == proc[r].state = "running"

\* while the handler awaits a child process the request has no response, its
\* directory exists and rmSync has not been called
HeldWhileAwaiting ==
  \A r \in Requests :
    AwaitsProcess(r) =>
      /\ res[r] = << >> /\ ~Done(r)
      /\ fs[tempDir[r]].exists /\ ~Has(r, "rmSync")

\* only the exit of the child process ends the wait: a step that leaves the
\* process running leaves the handler where it is (no timeout, no
\* cancellation)
OnlyExitEndsWait ==
  \A r \in Requests :
    (AwaitsProcess(r) /\ AwaitsProcess(r)') =>
      (pc'[r] = pc[r] /\ res'[r] = res[r] /\ log'[r] = log[r] /\ proc'[r] = proc[r])

\* C14: when every child process exits (the fairness of SpecLive), every
\* request that arrives gets a response; while a child process has not
\* exited the request has no response and its temporary directory is not
\* removed, and nothing but the exit of the process ends the wait, so a
\* request whose child process never exits never gets a response.
C14_RespondsIffProcessesExit ==
  /\ \A r \in Requests : (pc[r] # "idle") ~> Done(r)
  /\ [] HeldWhileAwaiting
  /\ [][OnlyExitEndsWait]_vars

C14_Witness ==
  \E r \in Requests :
    /\ AwaitsProcess(r) /\ proc[r].cmd = "audit" /\ pc[r] = "await_audit"
    /\ fs[tempDir[r]].exists /\ "package-lock.json" \in DOMAIN fs[tempDir[r]].files
    /\ res[r] = << >>

\* the cause of a finding: the first element of `via` when it is a list
\* (none when the list is empty), `via` itself otherwise
Cause(info) ==
  LET via == Get(info, "via")
  IN  IF via.t = "array" THEN (IF via.v = << >> THEN Undefined ELSE via.v[1])
      ELSE via

\* the fields of a record that come from the cause, and where the cause
\* holds each of them
CauseFields ==
  {<< "vulnerability", << "title" >> >>, << "cvssScore", << "cvss", "score" >> >>,
   << "cvssVector", << "cvss", "vectorString" >> >>, << "source", << "source" >> >>,
   << "url", << "url" >> >>, << "cwe", << "cwe" >> >>}

\* obj.a or obj.a.b
GetPath(obj, path) ==
  IF Len(path) = 1 THEN Get(obj, path[1]) ELSE Get(Get(obj, path[1]), path[2])

\* the record rec is the mapping of the finding info
MappedFromCause(rec, info) ==
  LET cause == Cause(info)
  IN  /\ cause.t = "object" =>
           \A f \in CauseFields : Get(rec, f[1]) = GetPath(cause, f[2])
      /\ cause.t = "string" =>
           /\ Get(rec, "vulnerability") = cause
           /\ \A f \in CauseFields :
                f[1] # "vulnerability" => f[1] \notin DOMAIN rec.v
      /\ Get(rec, "version") =
           IF Get(info, "range") = Undefined THEN Str("unknown") ELSE Get(info, "range")

\* C15: for each finding, when `via` is a list only its first element is
\* used; title, CVSS score, CVSS vector, source id, URL and weakness list are
\* those of that element when it is an object and are absent when it is a
\* string, which is then the vulnerability title; a missing range gives the
\* version 'unknown'.
C15_FirstCauseMapped ==
  \A r \in Requests :
    (Done(r) /\ Parsed(r) /\ Answered(r, 200)) =>
      LET es == Entries(VulnMap(auditOutput[r]))
      IN  \A i \in DOMAIN es :
            MappedFromCause(Body(r)["vulnerabilities"].v[i], es[i][2])

C15_Witness ==
  \E r \in Requests :
    /\ Done(r) /\ Parsed(r) /\ Answered(r, 200)
    /\ Get(VulnMap(auditOutput[r]), "lodash") =
         MkObj([via |-> Arr(<< Advisory, Str("minimist") >>),
                severity |-> Str("high"), fixAvailable |-> Bool(FALSE)])
    /\ LET rec == Body(r)["vulnerabilities"].v[1]
       IN  /\ Get(rec, "vulnerability") = Str("Prototype Pollution in lodash")
           /\ Get(rec, "cvssScore") = Num(7)
           /\ Get(rec, "version") = Str("unknown")

\* call c of performAudit is about to fail: the manifest is not valid JSON,
\* the fetch was rejected (a network failure), or the response is not OK
AttemptFails(c) ==
  \/ at[c] = "parse" /\ ~JsonParses(packageJsonContent[c])
  \/ at[c] = "await_fetch" /\ promise[c].state = "rejected"
  \/ at[c] = "await_json" /\ ~response[c].ok

\* a failed attempt ends with the error state set to a message and the
\* loading flag cleared, whatever failed; nothing else of the state changes
FailureSetsBanner ==
  \A c \in Calls :
    (AttemptFails(c) /\ at'[c] # at[c]) =>
      /\ at'[c] = "done"
      /\ error'.t = "string" /\ Truthy(error')
      /\ isLoading' = FALSE
      /\ UNCHANGED << auditResults, auditSummary, globalFilter, pageIndex >>

\* the start of performAudit clears the error and sets the loading flag
StartClearsBanner ==
  \A c \in Calls :
    (at[c] = "reading" /\ at'[c] # at[c]) =>
      (at'[c] = "parse" /\ error' = Null /\ isLoading' = TRUE)

\* C16: every failed audit attempt (a manifest that is not valid JSON, a
\* network failure, a response that is not OK, whatever its status) ends
\* with the one error state set to a message string and the loading flag
\* cleared; starting a new audit clears the previous error.
C16_FailureSetsOneBanner ==
  [][FailureSetsBanner /\ StartClearsBanner]_vars

\* an audit has started after a failed one: the banner of the first is gone
C16_Witness ==
  \E c, d \in Calls :
    /\ c # d
    /\ at[c] = "done" /\ at[d] = "await_fetch" /\ promise[d].state = "rejected"
    /\ error = Null /\ isLoading
    /\ auditResults = Null

\* C17: every request gets exactly one response on every path (never two,
\* and one when the handler has returned), with status 200, 400, 405 or
\* 500; a 200 response carries vulnerabilities and metadata, a 400 or 500
\* response carries an error field.
C17_OneWellFormedResponse ==
  \A r \in Requests :
    /\ Len(res[r]) <= 1
    /\ Done(r) <=> Len(res[r]) = 1
    /\ Len(res[r]) = 1 =>
         /\ res[r][1].status \in {200, 400, 405, 500}
         /\ res[r][1].status = 200 =>
              {"vulnerabilities", "metadata"} \subseteq DOMAIN Body(r)
         /\ res[r][1].status \in {400, 500} => "error" \in DOMAIN Body(r)

\* C18: on every 200 response the vulnerabilities list has exactly one
\* record per key of the parsed output's vulnerabilities map, each record's
\* name is its key, and no two records share a name.
C18_OneRecordPerKey ==
  \A r \in Requests :
    (Done(r) /\ Parsed(r) /\ Answered(r, 200)) =>
      LET list == Body(r)["vulnerabilities"].v
          keys == IF Get(auditOutput[r], "vulnerabilities").t = "object"
                  THEN DOMAIN Get(auditOutput[r], "vulnerabilities").v
                  ELSE {}
      IN  /\ Len(list) = Cardinality(keys)
          /\ {Get(list[i], "name") : i \in DOMAIN list} = {Str(k) : k \in keys}
          /\ \A i, j \in DOMAIN list :
               Get(list[i], "name") = Get(list[j], "name") => i = j

C18_Witness ==
  \E r \in Requests :
    /\ Done(r) /\ Parsed(r) /\ Answered(r, 200)
    /\ Get(auditOutput[r], "vulnerabilities").t = "object"
    /\ DOMAIN Get(auditOutput[r], "vulnerabilities").v = {"lodash", "minimist"}
    /\ Len(Body(r)["vulnerabilities"].v) = 2
    /\ Get(Body(r)["vulnerabilities"].v[2], "name") = Str("minimist")

\* every call a of r was made before every call b of r
Before(r, a, b) ==
  \A i, j \in DOMAIN log[r] : (log[r][i] = a /\ log[r][j] = b) => i < j

Invocations == {"lock", "install", "audit"}

\* C19: within one request, child processes run only while the request's
\* temporary directory exists: the directory is created and the manifest
\* written before the first invocation starts, the directory is not removed
\* before the audit invocation has settled, no invocation starts after the
\* removal, and the removal precedes the parse of the audit output.
C19_InvocationsInsideDirectory ==
  \A r \in Requests :
    /\ proc[r].state = "running" =>
         /\ proc[r].cwd = tempDir[r] /\ fs[tempDir[r]].exists
         /\ "package.json" \in DOMAIN fs[tempDir[r]].files
    /\ \A cmd \in Invocations :
         /\ Has(r, cmd) => (Has(r, "mkdtemp") /\ Has(r, "writeFile"))
         /\ Before(r, "mkdtemp", cmd) /\ Before(r, "writeFile", cmd)
         /\ Before(r, cmd, "rmSync")
    /\ Has(r, "rmSync") => (proc[r].cmd = "audit" /\ proc[r].state = "settled")
    /\ Has(r, "JSON.parse") => (Has(r, "rmSync") /\ ~fs[tempDir[r]].exists)
    /\ Before(r, "rmSync", "JSON.parse")

C19_Witness ==
  \E r \in Requests :
    /\ pc[r] = "map" /\ req[r].handler = 3
    /\ log[r] = Pipeline(3)
    /\ ~fs[tempDir[r]].exists

\* call c of performAudit has started and has not returned
InFlight(c) == at[c] \in {"parse", "await_fetch", "await_json"}

\* C20: the loading flag is true at every moment at least one performAudit
\* call is in flight, in every interleaving of overlapping uploads.
C20_LoadingWhileInFlight ==
  (\E c \in Calls : InFlight(c)) => isLoading

\* call c ends in this step without a response that is OK and holds a JSON
\* value other than null: performAudit has failed
FailsNow(c) ==
  /\ InFlight(c) /\ at'[c] = "done"
  /\ ~(/\ at[c] = "await_json" /\ response[c].ok
       /\ promise[c].state = "fulfilled" /\ CanRead(promise[c].value))

\* call c ends in this step with an OK response: its data replaces the list
\* and the summary in the same step
ReplacedBy(c) ==
  /\ at[c] = "await_json" /\ at'[c] = "done"
  /\ response[c].ok /\ promise[c].state = "fulfilled"
  /\ auditResults' =
       IF Truthy(Get(promise[c].value, "vulnerabilities"))
       THEN Get(promise[c].value, "vulnerabilities") ELSE Arr(<< >>)
  /\ auditSummary' =
       IF Truthy(Get(Get(promise[c].value, "metadata"), "vulnerabilities"))
       THEN Get(Get(promise[c].value, "metadata"), "vulnerabilities") ELSE Null
  /\ error' = error

\* C21: a failed performAudit leaves auditResults and auditSummary as they
\* were (the results of the previous successful audit stay beside the new
\* error); the two are replaced only together, by a call that got a
\* response with an OK status.
C21_FailureKeepsResults ==
  [][/\ \A c \in Calls :
          FailsNow(c) =>
            (auditResults' = auditResults /\ auditSummary' = auditSummary
             /\ error'.t = "string")
     /\ (auditResults' # auditResults \/ auditSummary' # auditSummary) =>
          \E c \in Calls : ReplacedBy(c)]_vars

\* the list of an earlier audit is shown beside the error of a later one
C21_Witness ==
  /\ Len(Records(auditResults)) = 2
  /\ auditSummary = Get(Counts(2), "vulnerabilities")
  /\ error.t = "string" /\ ~isLoading
  /\ \A c \in Calls : ~InFlight(c)

====
